---- MODULE Spec2Model ----
(***************************************************************************)
(* A model of UCSCbcbioTool.py, the command-line wrapper that validates    *)
(* its arguments, prepares the bcbio reference data directory, renders the *)
(* workflow YAML from a string.Template, optionally registers the GATK,    *)
(* optionally downloads reference data, writes bcbio_project.yaml and runs *)
(* bcbio_nextgen.py.                                                        *)
(*                                                                         *)
(* One behaviour of the model is one run of the script.  The command line  *)
(* is fixed by the initial state; the host file system and the exit        *)
(* statuses of child processes are chosen when the script observes them.   *)
(* A text is a sequence of non-empty strings whose concatenation is the    *)
(* text; the templates are cut at their placeholders and around the        *)
(* literal 'svcaller: [cnvkit, lumpy, delly]'.                             *)
(***************************************************************************)
EXTENDS Integers, Sequences, FiniteSets, TLC

VARIABLES
  pc,                      \* the statement of __main__ the run is at
  options,                 \* the command line, as argparse stores it
  exitCode,                \* the exit status, once pc = "exited"
  error,                   \* the message of the error that ended the run
  datadir,                 \* the local variable datadir
  fs,                      \* state of the directories the script looks at
  fsBefore,                \* their state when the script first looked
  log,                     \* side effects so far, in order
  yaml_substitute_values,  \* the substitution mapping (a defaultdict(str))
  workflow_template,       \* which template workflow_template is bound to
  workflow_to_run,         \* the rendered workflow YAML
  files,                   \* the files written by the run, by name
  output                   \* the local variable output (a child's status)

vars == << pc, options, exitCode, error, datadir, fs, fsBefore, log,
           yaml_substitute_values, workflow_template, workflow_to_run,
           files, output >>

----------------------------------------------------------------------------
\* Bounds of the model.

\* the longest list of --workflow values
MaxWorkflows == 2

\* the longest list of files of one group (sample, tumor, normal)
MaxFiles == 2

\* the largest exit status of a child process
MaxRet == 1

\* the largest processor count multiprocessing.cpu_count() reports
MaxCpu == 1

----------------------------------------------------------------------------
\* Python values.

\* None, and an option that was given: a one-element sequence
None == << >>

Some(v) == << v >>

Get(o) == o[1]

\* bool(s) of an optional string: None and '' are false
StrTruthy(o) == o # None /\ Get(o) # ""

\* bool(l) of an optional list: None and [] are false
ListTruthy(o) == o # None /\ Len(Get(o)) > 0

\* x in l, for a list l
In(x, l) == \E i \in 1..Len(l) : l[i] = x

\* the text of a Python string
Str(s) == IF s = "" THEN << >> ELSE << s >>

\* "".join(s) of a string s: its characters, joined by nothing
JoinChars(s) == Str(s)

\* sep.join(l): the elements of l in order, sep between neighbours
RECURSIVE Join(_, _)
Join(sep, l) ==
  IF Len(l) = 0 THEN << >>
  ELSE IF Len(l) = 1 THEN Str(l[1])
  ELSE Str(l[1]) \o Str(sep) \o Join(sep, Tail(l))

\* collections.defaultdict(str).__getitem__: a missing key reads as ''
Lookup(mapping, key) ==
  IF key \in DOMAIN mapping THEN mapping[key] ELSE << >>

\* mapping[key] = value
Store(mapping, key, value) ==
  [k \in DOMAIN mapping \cup {key} |-> IF k = key THEN value ELSE mapping[k]]

EmptyDict == [k \in {} |-> << >>]

----------------------------------------------------------------------------
\* The templates.

Lit(s) == [kind |-> "lit", text |-> s]

Var(n) == [kind |-> "var", text |-> n]

SvcallerFragment == "svcaller: [cnvkit, lumpy, delly]"

SysText1 ==
  "\n#\nresources:\n#  tmp:\n#    dir: "

SysText2 ==
  "\n  default:\n    cores: "

SysText3 ==
  "\n    jvm_opts:\n    - -Xms750m\n    - -Xmx3500m\n    memory: 3G\n  dexseq:\n    memory: 10g\n  express:\n    memory: 8g\n  gatk:\n    jvm_opts:\n    - -Xms500m\n    - -Xmx3500m\n  macs2:\n    memory: 8g\n  qualimap:\n    memory: 4g\n  seqcluster:\n    memory: 8g\n  snpeff:\n    jvm_opts:\n    - -Xms750m\n    - -Xmx4g\ngalaxy_config: /mnt/biodata/galaxy/\n#  galaxy_config: "

SysText4 ==
  "\n    "

bcbio_system_template ==
  << Lit(SysText1),
     Var("temp_dir"),
     Lit(SysText2),
     Var("core_count"),
     Lit(SysText3),
     Var("galaxy_config_path"),
     Lit(SysText4) >>

GermlineText1 ==
  "\n# See the bcbio-nextgen documentation for a description of the pipeline this was\n# derived from \n# https://bcbio-nextgen.readthedocs.org/en/latest/contents/testing.html#example-pipelines\n---\nresources:\n  tmp:\n    dir: "

GermlineText2 ==
  "\n    #dir: ./work\nupload:\n  dir: "

GermlineText3 ==
  "\ndetails:\n#   - files: [../input/NA12878_1.fastq.gz, ../input/NA12878_2.fastq.gz]\n  - files: [ "

GermlineText4 ==
  " ]\n    description: NA12878\n    metadata:\n      batch: ceph\n      sex: female\n    analysis: variant2\n    genome_build: GRCh37\n    algorithm:\n      aligner: bwa\n      align_split_size: 5000000\n      mark_duplicates: true\n      recalibrate: false\n      realign: false\n      variantcaller: [freebayes, gatk-haplotype, platypus, samtools]\n      remove_lcr: true\n#      validate: ../input/GiaB_v2_19.vcf.gz\n#      validate_regions: ../input/GiaB_v2_19_regions.bed\n    "

germline_variant_template ==
  << Lit(GermlineText1),
     Var("working_dir"),
     Lit(GermlineText2),
     Var("output_dir"),
     Lit(GermlineText3),
     Var("sample_files"),
     Lit(GermlineText4) >>

CancerText1 ==
  "\n# Cancer tumor/normal calling evaluation using synthetic dataset 3\n# from the ICGC-TCGA DREAM challenge:\n# https://www.synapse.org/#!Synapse:syn312572/wiki/62018\n---\ndetails:\n- algorithm:\n    aligner: bwa\n    align_split_size: 5000000\n    nomap_split_targets: 100\n    mark_duplicates: true\n    recalibrate: true\n    realign: true\n    remove_lcr: true\n    platform: illumina\n    quality_format: standard\n    variantcaller: [mutect2, freebayes, vardict, varscan]\n    indelcaller: false\n    ensemble:\n      numpass: 2\n    variant_regions: "

CancerText2 ==
  "\n#    variant_regions: /mnt/cancer-dream-syn3/input/NGv3.bed\n    # "

CancerText3 ==
  "\n    "

CancerText4 ==
  "\n    # coverage_interval: amplicon\n  analysis: variant2\n  description: syn3-normal\n\n  # The YAML below should look like the following after substitution:\n  # files: [ <path and file name of normal paired end reads>, <path and file name of other end of normal paired end reads> ]\n  files: ["

CancerText5 ==
  "]\n\n  #files: /mnt/cancer-dream-syn3/input/synthetic.challenge.set3.normal.bam\n#  files:\n#    - /mnt/cancer-dream-syn3/input/synthetic_challenge_set3_normal_NGv3_1.fq.gz\n#    - /mnt/cancer-dream-syn3/input/synthetic_challenge_set3_normal_NGv3_2.fq.gz\n  genome_build: GRCh37\n  metadata:\n    batch: syn3\n    phenotype: normal\n- algorithm:\n    aligner: bwa\n    align_split_size: 5000000\n    nomap_split_targets: 100\n    mark_duplicates: true\n    recalibrate: true\n    realign: true\n    remove_lcr: true\n    platform: illumina\n    quality_format: standard\n    variantcaller: [mutect2, freebayes, vardict, varscan]\n    indelcaller: false\n    ensemble:\n      numpass: 2\n    variant_regions: "

CancerText6 ==
  "\n#    variant_regions: /mnt/cancer-dream-syn3/input/NGv3.bed\n#    validate: /mnt/cancer-dream-syn3/input/synthetic_challenge_set3_tumor_20pctmasked_truth.vcf.gz\n#    validate_regions: /mnt/cancer-dream-syn3/input/synthetic_challenge_set3_tumor_20pctmasked_truth_regions.bed\n    # "

CancerText7 ==
  "\n    "

CancerText8 ==
  "\n    # coverage_interval: amplicon\n  #   svvalidate:\n  #     DEL: /mnt/cancer-dream-syn3/input/synthetic_challenge_set3_tumor_20pctmasked_truth_sv_DEL.bed\n  #     DUP: /mnt/cancer-dream-syn3/input/synthetic_challenge_set3_tumor_20pctmasked_truth_sv_DUP.bed\n  #     INS: /mnt/cancer-dream-syn3/input/synthetic_challenge_set3_tumor_20pctmasked_truth_sv_INS.bed\n  #     INV: /mnt/cancer-dream-syn3/input/synthetic_challenge_set3_tumor_20pctmasked_truth_sv_INV.bed\n  analysis: variant2\n  description: syn3-tumor\n\n\n  # The YAML below should look like the following after substitution:\n  # files: [ <path and file name of tumor paired end reads>, <path and file name of other end of tumor paired end reads> ]\n  files: ["

CancerText9 ==
  "]\n\n  #files: /mnt/cancer-dream-syn3/input/synthetic.challenge.set3.tumor.bam\n#  files:\n#    - /mnt/cancer-dream-syn3/input/synthetic_challenge_set3_tumor_NGv3_1.fq.gz\n#    - /mnt/cancer-dream-syn3/input/synthetic_challenge_set3_tumor_NGv3_2.fq.gz\n  genome_build: GRCh37\n  metadata:\n    batch: syn3\n    phenotype: tumor\nfc_date: '2014-08-13'\nfc_name: dream-syn3\nupload:\n#  dir: /mnt/cancer-dream-syn3/final\n  dir: "

CancerText10 ==
  "\nresources:\n  tmp:\n    #dir: ./work \n    dir: "

CancerText11 ==
  "\n    "

cancer_variant_template ==
  << Lit(CancerText1),
     Var("bed_file"),
     Lit(CancerText2),
     Lit(SvcallerFragment),
     Lit(CancerText3),
     Var("svcaller_info"),
     Lit(CancerText4),
     Var("normal_sample_files"),
     Lit(CancerText5),
     Var("bed_file"),
     Lit(CancerText6),
     Lit(SvcallerFragment),
     Lit(CancerText7),
     Var("svcaller_info"),
     Lit(CancerText8),
     Var("tumor_sample_files"),
     Lit(CancerText9),
     Var("output_dir"),
     Lit(CancerText10),
     Var("working_dir"),
     Lit(CancerText11) >>

\* string.Template.substitute(mapping): every $name becomes mapping[name];
\* the mapping is a defaultdict, so no name raises KeyError
RECURSIVE substitute(_, _)
substitute(template, mapping) ==
  IF Len(template) = 0 THEN << >>
  ELSE LET t == Head(template)
           piece == IF t.kind = "lit" THEN Str(t.text)
                    ELSE Lookup(mapping, t.text)
       IN  piece \o substitute(Tail(template), mapping)

TemplateText(name) ==
  IF name = "germline" THEN germline_variant_template
  ELSE cancer_variant_template

----------------------------------------------------------------------------
\* The command line.

Germline == "germline-variant-calling"

Cancer == "cancer-variant-calling"

Structural == "structural-variant-calling"

WorkflowChoices == { Cancer, Germline, Structural }

\* --num_cores, as its default
DefaultCores == 16

\* the core count used when cpu_count() fails
FallbackCores == 16

\* the exit status of parser.error()
UsageExit == 2

\* the exit status of an uncaught exception
CrashExit == 1

\* os.getcwd()
Cwd == "<cwd>"

SeqsUpTo(S, n) == UNION { [1..k -> S] : k \in 1..n }

Workflows == SeqsUpTo(WorkflowChoices, MaxWorkflows)

OptionsOf(W, S, T, N, G, DD, DF, O) ==
  [ workflow : W, sample_files : S, tumor_sample_files : T,
    normal_sample_files : N, GATK_file : G, data_dir : DD, data_file : DF,
    output_dir : O, bed_file : {"regions.bed"}, num_cores : {DefaultCores} ]

\* the command lines of whole runs: every option varies, each file group
\* is absent or one pair of mates
RunOptions ==
  OptionsOf(Workflows,
            {None, Some(<< "s_1.fq", "s_2.fq" >>)},
            {None, Some(<< "t_1.fq", "t_2.fq" >>)},
            {None, Some(<< "n_1.fq", "n_2.fq" >>)},
            {None, Some(""), Some("GenomeAnalysisTK.tar.bz2")},
            {None, Some("refdata")},
            {None, Some("refdata.tar.gz")},
            {None, Some(""), Some("results")})

FileLists == { Some(l) : l \in SeqsUpTo({"a_1.fq", "a_2.fq"}, MaxFiles) }

\* the command lines used to exercise rendering: every list of files
RenderOptions ==
  OptionsOf(Workflows,
            {None} \cup FileLists, {None} \cup FileLists, {None} \cup FileLists,
            {None}, {None}, {None}, {None})

\* parse_arguments without the check that refuses structural variant
\* calling on its own
ParseErrorStructuralAlone(o) ==
  IF o.data_dir # None /\ o.data_file # None
    THEN "argument -f/--data_file: not allowed with argument -d/--data_dir"
  ELSE IF In(Germline, o.workflow) /\ In(Cancer, o.workflow)
    THEN "Cancer variant calling cannot be run with germline variant calling"
  ELSE IF In(Germline, o.workflow) /\ o.sample_files = None
    THEN "Sample files switch must be used for germline-variant-calling"
  ELSE IF /\ In(Cancer, o.workflow)
          /\ (o.normal_sample_files = None \/ o.tumor_sample_files = None)
    THEN "Normal and tumor input file switches must be used for cancer-variant-calling"
  ELSE IF /\ (o.normal_sample_files # None \/ o.tumor_sample_files # None)
          /\ o.sample_files # None
    THEN "Normal and tumor input file switches cannot be used with sample input switch"
  ELSE ""

\* parse_arguments without the check that refuses sample files together
\* with tumor or normal files
ParseErrorMixedInputs(o) ==
  IF o.data_dir # None /\ o.data_file # None
    THEN "argument -f/--data_file: not allowed with argument -d/--data_dir"
  ELSE IF /\ ~ In(Germline, o.workflow)
          /\ ~ In(Cancer, o.workflow)
          /\ In(Structural, o.workflow)
    THEN "Structural variant calling must be run with germline or cancer variant calling"
  ELSE IF In(Germline, o.workflow) /\ In(Cancer, o.workflow)
    THEN "Cancer variant calling cannot be run with germline variant calling"
  ELSE IF In(Germline, o.workflow) /\ o.sample_files = None
    THEN "Sample files switch must be used for germline-variant-calling"
  ELSE IF /\ In(Cancer, o.workflow)
          /\ (o.normal_sample_files = None \/ o.tumor_sample_files = None)
    THEN "Normal and tumor input file switches must be used for cancer-variant-calling"
  ELSE ""

\* parse_arguments with --data_dir and --data_file in no exclusive group
ParseErrorBothSources(o) ==
  IF /\ ~ In(Germline, o.workflow)
     /\ ~ In(Cancer, o.workflow)
     /\ In(Structural, o.workflow)
    THEN "Structural variant calling must be run with germline or cancer variant calling"
  ELSE IF In(Germline, o.workflow) /\ In(Cancer, o.workflow)
    THEN "Cancer variant calling cannot be run with germline variant calling"
  ELSE IF In(Germline, o.workflow) /\ o.sample_files = None
    THEN "Sample files switch must be used for germline-variant-calling"
  ELSE IF /\ In(Cancer, o.workflow)
          /\ (o.normal_sample_files = None \/ o.tumor_sample_files = None)
    THEN "Normal and tumor input file switches must be used for cancer-variant-calling"
  ELSE IF /\ (o.normal_sample_files # None \/ o.tumor_sample_files # None)
          /\ o.sample_files # None
    THEN "Normal and tumor input file switches cannot be used with sample input switch"
  ELSE ""

\* parse_arguments: the message of the error it ends with, '' when it
\* returns the options.  argparse itself refuses --data_dir together with
\* --data_file (the mutually exclusive group), then the five checks follow.
ParseError(o) ==
  IF o.data_dir # None /\ o.data_file # None
    THEN "argument -f/--data_file: not allowed with argument -d/--data_dir"
  ELSE IF /\ ~ In(Germline, o.workflow)
          /\ ~ In(Cancer, o.workflow)
          /\ In(Structural, o.workflow)
    THEN "Structural variant calling must be run with germline or cancer variant calling"
  ELSE IF In(Germline, o.workflow) /\ In(Cancer, o.workflow)
    THEN "Cancer variant calling cannot be run with germline variant calling"
  ELSE IF In(Germline, o.workflow) /\ o.sample_files = None
    THEN "Sample files switch must be used for germline-variant-calling"
  ELSE IF /\ In(Cancer, o.workflow)
          /\ (o.normal_sample_files = None \/ o.tumor_sample_files = None)
    THEN "Normal and tumor input file switches must be used for cancer-variant-calling"
  ELSE IF /\ (o.normal_sample_files # None \/ o.tumor_sample_files # None)
          /\ o.sample_files # None
    THEN "Normal and tumor input file switches cannot be used with sample input switch"
  ELSE ""

----------------------------------------------------------------------------
\* The file system and the side effects.

Dirs == { "datadir", "working_dir", "output_dir", "gatk",
          "mnt_galaxy", "mnt_genomes" }

\* os.path.exists
Exists(state) == state \in { "exists", "empty", "nonempty" }

Ev(op, arg) == [op |-> op, arg |-> arg, rc |-> 0]

Call(cmd, rc) == [op |-> "call", arg |-> cmd, rc |-> rc]

RetCodes == 0..MaxRet

\* os.makedirs(path) guarded by "if not os.path.exists(path)"
MakeIfAbsent(state, path) ==
  IF Exists(state) THEN << >> ELSE << Ev("makedirs", path) >>

\* os.path.join(datadir, ''): the path with a slash at its end
\* (the paths given to the model have none)
WithSlash(path) == << path, "/" >>

TarCmd(o, dir) == << "tar", "-xzvf", Get(o.data_file), "-C" >> \o dir

GatkCmd(o) == << "gatk-register", Get(o.GATK_file) >>

UpgradeCmd ==
  << "bcbio_nextgen.py", "upgrade", "--data", "--genomes", "GRCh37",
     "--aligners", "bwa" >>

ProjectFile == "bcbio_project.yaml"

SystemFile == "/mnt/biodata/galaxy/bcbio_system.yaml"

WorkflowCmd(o) ==
  << "bcbio_nextgen.py", ProjectFile, "-n", ToString(o.num_cores) >>

----------------------------------------------------------------------------
\* The decisions of __main__.

\* output_dir_str that ignores --output_dir
OutputDirStrDefaultOnly(o) == Str("./final")

\* output_dir_str: './final' unless --output_dir holds a non-empty string
OutputDirStr(o) ==
  IF StrTruthy(o.output_dir) THEN JoinChars(Get(o.output_dir))
  ELSE Str("./final")

\* the value of 'svcaller_info'
SvcallerInfo(o) ==
  IF In(Structural, o.workflow) THEN Str(SvcallerFragment) ELSE Str("")

\* the choice of the template without its first if
SelectTemplateCancerOnly(o) ==
  IF In(Cancer, o.workflow) THEN "cancer" ELSE "unbound"

\* the two ifs that bind workflow_template; the later one wins, and the
\* name stays unbound when neither workflow is asked for
SelectTemplate(o) ==
  IF In(Cancer, o.workflow) THEN "cancer"
  ELSE IF In(Germline, o.workflow) THEN "germline"
  ELSE "unbound"

\* a join that walks the list from its end
FileStrReversed(group) ==
  Join(",", [i \in 1..Len(Get(group)) |-> Get(group)[Len(Get(group)) + 1 - i]])

\* the value stored for one file group: its files joined by commas
FileStr(group) == Join(",", Get(group))

WithFiles(mapping, key, group) ==
  IF ListTruthy(group) THEN Store(mapping, key, FileStr(group)) ELSE mapping

\* yaml_substitute_values, as built before the substitution
SubstituteValues(o) ==
  LET v1 == Store(EmptyDict, "working_dir", << Cwd, "/work/" >>)
      v2 == Store(v1, "bed_file", JoinChars(o.bed_file))
      v3 == Store(v2, "output_dir", OutputDirStr(o))
      v4 == WithFiles(v3, "sample_files", o.sample_files)
      v5 == WithFiles(v4, "normal_sample_files", o.normal_sample_files)
      v6 == WithFiles(v5, "tumor_sample_files", o.tumor_sample_files)
  IN  Store(v6, "svcaller_info", SvcallerInfo(o))

\* a test of /tmp/gatk/ that only asks whether it is a directory
GatkDirExists(state) == state \in { "empty", "nonempty" }

\* the GATK is taken as installed: /tmp/gatk/ is a directory with entries
GatkInstalled(state) == state = "nonempty"

\* a test of the data directory that only asks whether it is there
DataDirIsThere(state) == state \in { "empty", "nonempty" }

\* len(os.listdir(datadir)) == 0
DataDirIsEmpty(state) == state = "empty"

\* multiprocessing.cpu_count(), or the default when it raises
CpuCounts == (1..MaxCpu) \cup { FallbackCores }

\* bcbio_system.yaml for a core count
SystemYaml(cpu) ==
  substitute(bcbio_system_template,
             Store(EmptyDict, "core_count", Str(ToString(cpu))))

\* what __main__ returns: it has no return statement
MainReturn == None

\* sys.exit(arg): None is status 0, an integer is the status
ExitStatus(arg) == IF arg = None THEN 0 ELSE Get(arg)

----------------------------------------------------------------------------
\* The run.

Crash(why, events) ==
  /\ pc' = "exited"
  /\ exitCode' = CrashExit
  /\ error' = why
  /\ log' = log \o events

\* options = parse_arguments()
ParseArguments ==
  /\ pc = "parse_arguments"
  /\ LET err == ParseError(options)
     IN  IF err # ""
           THEN /\ pc' = "exited"
                /\ exitCode' = UsageExit
                /\ error' = err
           ELSE /\ pc' = "datadir"
                /\ UNCHANGED << exitCode, error >>
  /\ UNCHANGED << options, datadir, fs, fsBefore, log, yaml_substitute_values,
                  workflow_template, workflow_to_run, files, output >>

\* the choice of datadir, its creation, and the extraction of --data_file
PrepareDataDir ==
  /\ pc = "datadir"
  /\ \E before \in { "absent", "empty", "nonempty" },
        rc \in RetCodes, extracted \in BOOLEAN :
       LET given == StrTruthy(options.data_dir)
           untar == ~ given /\ StrTruthy(options.data_file)
           dir   == IF given THEN WithSlash(Get(options.data_dir))
                    ELSE << Cwd, "/data/" >>
           made  == IF before = "absent" THEN "empty" ELSE before
       IN  /\ untar \/ (rc = 0 /\ ~ extracted)
           /\ datadir' = dir
           /\ fsBefore' = [fsBefore EXCEPT !["datadir"] = before]
           /\ fs' = [fs EXCEPT !["datadir"] =
                       IF extracted THEN "nonempty" ELSE made]
           /\ log' = log \o MakeIfAbsent(before, dir)
                         \o (IF untar THEN << Call(TarCmd(options, dir), rc) >>
                             ELSE << >>)
                         \o (IF extracted THEN << Ev("extract", dir) >>
                             ELSE << >>)
  /\ pc' = "render"
  /\ UNCHANGED << options, exitCode, error, yaml_substitute_values,
                  workflow_template, workflow_to_run, files, output >>

\* working_dir and the output directory are made, the substitution values
\* are collected, the template is chosen and substituted
RenderWorkflow ==
  /\ pc = "render"
  /\ \E work \in { "absent", "exists" }, out \in { "absent", "exists" } :
       LET values == SubstituteValues(options)
           chosen == SelectTemplate(options)
           events == MakeIfAbsent(work, << Cwd, "/work/" >>)
                     \o MakeIfAbsent(out, OutputDirStr(options))
       IN  /\ fsBefore' = [fsBefore EXCEPT !["working_dir"] = work,
                                           !["output_dir"] = out]
           /\ fs' = [fs EXCEPT !["working_dir"] = "exists",
                               !["output_dir"] = "exists"]
           /\ yaml_substitute_values' = values
           /\ workflow_template' = chosen
           /\ IF chosen = "unbound"
                THEN /\ Crash("UnboundLocalError: workflow_template", events)
                     /\ UNCHANGED workflow_to_run
                ELSE /\ workflow_to_run' = substitute(TemplateText(chosen), values)
                     /\ log' = log \o events
                     /\ pc' = "gatk"
                     /\ UNCHANGED << exitCode, error >>
  /\ UNCHANGED << options, datadir, files, output >>

\* gatk-register, when --GATK_file is given and the GATK is not installed
RegisterGATK ==
  /\ pc = "gatk"
  /\ IF StrTruthy(options.GATK_file)
       THEN \E gatk \in { "absent", "empty", "nonempty" }, rc \in RetCodes :
              /\ GatkInstalled(gatk) => rc = 0
              /\ fsBefore' = [fsBefore EXCEPT !["gatk"] = gatk]
              /\ fs' = [fs EXCEPT !["gatk"] = gatk]
              /\ log' = IF GatkInstalled(gatk) THEN log
                        ELSE Append(log, Call(GatkCmd(options), rc))
       ELSE UNCHANGED << fs, fsBefore, log >>
  /\ pc' = "refdata"
  /\ UNCHANGED << options, exitCode, error, datadir, yaml_substitute_values,
                  workflow_template, workflow_to_run, files, output >>

\* the symlinks under /mnt/biodata and, into an empty data directory, the
\* system YAML and the download of the reference data
ReferenceData ==
  /\ pc = "refdata"
  /\ \E galaxy \in { "absent", "exists" }, genomes \in { "absent", "exists" },
        cpu \in CpuCounts, rc \in RetCodes :
       LET here     == fs["datadir"]
           mkGalaxy == Ev("makedirs", datadir \o << "galaxy" >>)
           lnGalaxy == Ev("symlink", << "/mnt/biodata/galaxy" >>)
           mkGenome == Ev("makedirs", datadir \o << "genomes" >>)
           lnGenome == Ev("symlink", << "/mnt/biodata/genomes" >>)
           sawGalaxy(f)  == [f EXCEPT !["mnt_galaxy"] = galaxy]
           sawGenomes(f) == [f EXCEPT !["mnt_genomes"] = genomes]
           filled(f)     == [f EXCEPT !["datadir"] = "nonempty"]
           linked(f)     == [f EXCEPT !["mnt_galaxy"] = "exists",
                                      !["mnt_genomes"] = "exists"]
       IN  IF ~ Exists(here)
             THEN /\ pc' = "write"
                  /\ UNCHANGED << exitCode, error, fs, fsBefore, log, files,
                                  output >>
           ELSE IF ~ DataDirIsEmpty(here) /\ (cpu # FallbackCores \/ rc # 0)
             THEN FALSE   \* nothing is downloaded: one choice stands for all
           ELSE IF DataDirIsEmpty(here)
             THEN IF Exists(galaxy)
                    THEN /\ Crash("OSError: symlink", << mkGalaxy >>)
                         /\ fsBefore' = sawGalaxy(fsBefore)
                         /\ fs' = filled(sawGalaxy(fs))
                         /\ UNCHANGED << files, output >>
                  ELSE IF Exists(genomes)
                    THEN /\ Crash("OSError: symlink",
                                  << mkGalaxy, lnGalaxy, mkGenome >>)
                         /\ fsBefore' = sawGenomes(sawGalaxy(fsBefore))
                         /\ fs' = [filled(sawGenomes(fs))
                                     EXCEPT !["mnt_galaxy"] = "exists"]
                         /\ UNCHANGED << files, output >>
                  ELSE /\ pc' = "write"
                       /\ fsBefore' = sawGenomes(sawGalaxy(fsBefore))
                       /\ fs' = linked(filled(fs))
                       /\ files' = Store(files, SystemFile, SystemYaml(cpu))
                       /\ log' = log \o << mkGalaxy, lnGalaxy, mkGenome,
                                           lnGenome,
                                           Ev("write", << SystemFile >>),
                                           Call(UpgradeCmd, rc) >>
                       /\ output' = Some(rc)
                       /\ UNCHANGED << exitCode, error >>
           ELSE IF Exists(genomes)
                  THEN /\ Crash("OSError: symlink", << >>)
                       /\ fsBefore' = sawGenomes(fsBefore)
                       /\ fs' = sawGenomes(fs)
                       /\ UNCHANGED << files, output >>
                ELSE IF Exists(galaxy)
                  THEN /\ Crash("OSError: symlink", << lnGenome >>)
                       /\ fsBefore' = sawGenomes(sawGalaxy(fsBefore))
                       /\ fs' = [sawGalaxy(fs)
                                   EXCEPT !["mnt_genomes"] = "exists"]
                       /\ UNCHANGED << files, output >>
                ELSE /\ pc' = "write"
                     /\ fsBefore' = sawGenomes(sawGalaxy(fsBefore))
                     /\ fs' = linked(fs)
                     /\ log' = log \o << lnGenome, lnGalaxy >>
                     /\ UNCHANGED << exitCode, error, files, output >>
  /\ UNCHANGED << options, datadir, yaml_substitute_values,
                  workflow_template, workflow_to_run >>

\* bcbio_project.yaml is written with the rendered workflow
WriteProjectFile ==
  /\ pc = "write"
  /\ files' = Store(files, ProjectFile, workflow_to_run)
  /\ log' = Append(log, Ev("write", << ProjectFile >>))
  /\ pc' = "run"
  /\ UNCHANGED << options, exitCode, error, datadir, fs, fsBefore,
                  yaml_substitute_values, workflow_template, workflow_to_run,
                  output >>

\* the workflow run as soon as the reference data is ready, before
\* bcbio_project.yaml is written
RunWorkflowBeforeWrite ==
  /\ pc = "write"
  /\ \A i \in 1..Len(log) : log[i].arg # WorkflowCmd(options)
  /\ \E rc \in RetCodes :
       /\ log' = Append(log, Call(WorkflowCmd(options), rc))
       /\ output' = Some(rc)
  /\ UNCHANGED << pc, options, exitCode, error, datadir, fs, fsBefore,
                  yaml_substitute_values, workflow_template, workflow_to_run,
                  files >>

\* output = subprocess.call(["bcbio_nextgen.py", ...])
RunWorkflow ==
  /\ pc = "run"
  /\ \E rc \in RetCodes :
       /\ log' = Append(log, Call(WorkflowCmd(options), rc))
       /\ output' = Some(rc)
  /\ pc' = "return"
  /\ UNCHANGED << options, exitCode, error, datadir, fs, fsBefore,
                  yaml_substitute_values, workflow_template, workflow_to_run,
                  files >>

\* __main__ returns and sys.exit() ends the process
Exit ==
  /\ pc = "return"
  /\ exitCode' = ExitStatus(MainReturn)
  /\ pc' = "exited"
  /\ UNCHANGED << options, error, datadir, fs, fsBefore, log,
                  yaml_substitute_values, workflow_template, workflow_to_run,
                  files, output >>

----------------------------------------------------------------------------
\* The specifications.

Start ==
  /\ pc = "parse_arguments"
  /\ exitCode = 0
  /\ error = ""
  /\ datadir = << >>
  /\ fs = [d \in Dirs |-> "unknown"]
  /\ fsBefore = [d \in Dirs |-> "unknown"]
  /\ log = << >>
  /\ yaml_substitute_values = EmptyDict
  /\ workflow_template = "unbound"
  /\ workflow_to_run = << >>
  /\ files = EmptyDict
  /\ output = None

Init == options \in RunOptions /\ Start

Next ==
  \/ ParseArguments
  \/ PrepareDataDir
  \/ RenderWorkflow
  \/ RegisterGATK
  \/ ReferenceData
  \/ WriteProjectFile
  \/ RunWorkflow
  \/ Exit

\* whole runs
Spec == Init /\ [][Next]_vars

InitRender == options \in RenderOptions /\ Start

NextRender ==
  \/ ParseArguments
  \/ PrepareDataDir
  \/ RenderWorkflow

\* runs up to the rendering of the workflow, over every list of files
SpecRender == InitRender /\ [][NextRender]_vars

----------------------------------------------------------------------------
\* Vocabulary of the properties.

\* parse_arguments ended the run with a usage error
Rejected == pc = "exited" /\ exitCode = UsageExit

\* parse_arguments returned the options
Accepted == pc # "parse_arguments" /\ ~ Rejected

\* the workflow YAML has been rendered (no template renders as nothing)
Rendered == workflow_to_run # << >>

Given(group) == group # None

Contains(text, token) == \E i \in 1..Len(text) : text[i] = token

Without(text, token) == SelectSeq(text, LAMBDA t : t # token)

\* the part of a text between the literal open and the next literal close
Segment(text, open, close) ==
  LET i == CHOOSE k \in 1..Len(text) : text[k] = open
      j == CHOOSE k \in (i + 1)..Len(text) :
             text[k] = close /\ \A m \in (i + 1)..(k - 1) : text[m] # close
  IN  SubSeq(text, i + 1, j - 1)

\* the positions in the log of the runs of the workflow
PipelineCalls ==
  { i \in 1..Len(log) : log[i].op = "call" /\ log[i].arg = WorkflowCmd(options) }

\* the positions in the log of the child processes of a kind that failed
FailedCalls(program, verb) ==
  { i \in 1..Len(log) : /\ log[i].op = "call"
                        /\ log[i].rc # 0
                        /\ log[i].arg[1] = program
                        /\ log[i].arg[2] = verb }

\* the upload directory of the rendered workflow
UploadDir ==
  IF workflow_template = "germline"
    THEN Segment(workflow_to_run, GermlineText2, GermlineText3)
    ELSE Segment(workflow_to_run, CancerText9, CancerText10)

----------------------------------------------------------------------------
\* The properties.

C2_InputGroupsMatchMode ==
  Accepted =>
    /\ In(Germline, options.workflow) =>
         /\ Given(options.sample_files)
         /\ ~ Given(options.tumor_sample_files)
         /\ ~ Given(options.normal_sample_files)
    /\ In(Cancer, options.workflow) =>
         /\ Given(options.tumor_sample_files)
         /\ Given(options.normal_sample_files)
         /\ ~ Given(options.sample_files)

C2_Witness ==
  /\ Accepted
  /\ In(Cancer, options.workflow)
  /\ Given(options.tumor_sample_files)
  /\ Given(options.normal_sample_files)

\* a command line that validation has to refuse
InvalidCommandLine(o) ==
  \/ Given(o.data_dir) /\ Given(o.data_file)
  \/ In(Germline, o.workflow) = In(Cancer, o.workflow)
  \/ /\ In(Germline, o.workflow)
     /\ ~ (/\ Given(o.sample_files)
           /\ ~ Given(o.tumor_sample_files)
           /\ ~ Given(o.normal_sample_files))
  \/ /\ In(Cancer, o.workflow)
     /\ ~ (/\ Given(o.tumor_sample_files)
           /\ Given(o.normal_sample_files)
           /\ ~ Given(o.sample_files))

\* C3: a run whose command line is invalid (workflow combination, input
\* groups, or both --data_dir and --data_file) never gets past
\* parse_arguments, ends with a non-zero exit status, and has no side
\* effect: no directory looked at or made, no child process, no file.
C3_InvalidRunHasNoSideEffect ==
  InvalidCommandLine(options) =>
    /\ pc \in { "parse_arguments", "exited" }
    /\ pc = "exited" => exitCode # 0
    /\ log = << >>
    /\ files = EmptyDict
    /\ \A d \in Dirs : fs[d] = "unknown"

C3_Witness ==
  /\ pc = "exited"
  /\ exitCode # 0
  /\ Given(options.data_dir)
  /\ Given(options.data_file)
  /\ In(Germline, options.workflow)
  /\ Given(options.sample_files)

\* C4: in a run that ran the workflow, the exit status of the program is
\* the exit status of bcbio_nextgen.py.
C4_ExitStatusIsPipelineStatus ==
  pc = "exited" => \A i \in PipelineCalls : exitCode = log[i].rc

\* C5: after a failed extraction of --data_file or a failed download of the
\* reference data the workflow is not run.
C5_FailedProvisioningAborts ==
  (FailedCalls("tar", "-xzvf") \cup FailedCalls("bcbio_nextgen.py", "upgrade")) # {}
    => PipelineCalls = {}

\* every placeholder of the chosen workflow template has a value at the
\* substitution, so string.Template.substitute has no key to miss
EveryPlaceholderSupplied ==
  Rendered =>
    \A i \in 1..Len(TemplateText(workflow_template)) :
      LET t == TemplateText(workflow_template)[i]
      IN  t.kind = "var" => t.text \in DOMAIN yaml_substitute_values

\* C7: the rendered workflow holds 'svcaller: [cnvkit, lumpy, delly]' when
\* structural variant calling is asked for and not otherwise, with either
\* template, and apart from that literal it is the same text.
C7_SvcallerFragmentFollowsRequest ==
  Rendered =>
    /\ In(Structural, options.workflow)
         <=> Contains(workflow_to_run, SvcallerFragment)
    /\ Without(workflow_to_run, SvcallerFragment)
         = Without(substitute(TemplateText(workflow_template),
                              Store(yaml_substitute_values,
                                    "svcaller_info", << >>)),
                   SvcallerFragment)

\* a text that is the paths, in their order, with a comma between neighbours
IsCommaList(text, paths) ==
  /\ Len(text) = 2 * Len(paths) - 1
  /\ \A i \in 1..Len(paths) : text[2 * i - 1] = paths[i]
  /\ \A i \in 1..(Len(paths) - 1) : text[2 * i] = ","

\* C8: the text put in place of a files placeholder is the files of that
\* group joined by commas, in the order of the command line, none dropped,
\* repeated or moved.
C8_FilesJoinedInOrder ==
  Rendered =>
    /\ workflow_template = "germline" =>
         IsCommaList(Segment(workflow_to_run, GermlineText3, GermlineText4),
                     Get(options.sample_files))
    /\ workflow_template = "cancer" =>
         /\ IsCommaList(Segment(workflow_to_run, CancerText4, CancerText5),
                        Get(options.normal_sample_files))
         /\ IsCommaList(Segment(workflow_to_run, CancerText8, CancerText9),
                        Get(options.tumor_sample_files))

C8_Witness ==
  /\ Rendered
  /\ workflow_template = "cancer"
  /\ options.normal_sample_files = Some(<< "a_2.fq", "a_1.fq" >>)
  /\ options.tumor_sample_files = Some(<< "a_1.fq", "a_1.fq" >>)

\* the output directory is there, and was made by the run exactly when it
\* was not there before
OutputDirMade(path) ==
  /\ fs["output_dir"] = "exists"
  /\ fsBefore["output_dir"] = "absent"
       <=> \E i \in 1..Len(log) : log[i] = Ev("makedirs", path)

\* C9, as claimed: the upload directory is './final' without --output_dir
\* and the given path with it, and the directory exists after the step.
C9_UploadDirAsGiven ==
  Rendered =>
    LET want == IF Given(options.output_dir)
                  THEN Str(Get(options.output_dir))
                  ELSE << "./final" >>
    IN  UploadDir = want /\ OutputDirMade(want)

\* C9, amended: the upload directory is the given path when --output_dir
\* is given and not empty, './final' when it is not given or is the empty
\* string; the directory exists after the step, made if it was absent.
C9_UploadDirUnlessEmpty ==
  Rendered =>
    LET want == IF Given(options.output_dir) /\ Get(options.output_dir) # ""
                  THEN << Get(options.output_dir) >>
                  ELSE << "./final" >>
    IN  UploadDir = want /\ OutputDirMade(want)

C9_Witness ==
  /\ Rendered
  /\ options.output_dir = None
  /\ fsBefore["output_dir"] = "absent"
  /\ UploadDir = << "./final" >>

\* the data directory was empty when the script listed it
EmptyWhenChecked ==
  /\ fsBefore["datadir"] \in { "absent", "empty" }
  /\ \A i \in 1..Len(log) : log[i].op # "extract"

\* C10, as claimed: whenever the workflow is run, bcbio_system.yaml has
\* been written by the run.
C10_SystemYamlAlwaysWritten ==
  PipelineCalls # {} => SystemFile \in DOMAIN files

\* C10, amended: whenever the workflow is run, bcbio_system.yaml has been
\* written by the run, before the workflow, with the per-tool settings and
\* a core count, exactly when the data directory was empty when checked;
\* into a populated data directory the run writes no system YAML.
C10_SystemYamlIffEmptyDataDir ==
  PipelineCalls # {} =>
    /\ SystemFile \in DOMAIN files <=> EmptyWhenChecked
    /\ SystemFile \in DOMAIN files =>
         /\ \E n \in CpuCounts :
              files[SystemFile]
                = << SysText1, SysText2, ToString(n), SysText3, SysText4 >>
         /\ \E i \in 1..Len(log) :
              /\ log[i] = Ev("write", << SystemFile >>)
              /\ \A j \in PipelineCalls : i < j

C10_Witness ==
  /\ PipelineCalls # {}
  /\ SystemFile \in DOMAIN files
  /\ Given(options.data_dir)
  /\ fsBefore["datadir"] = "empty"


\* the place of a log entry among the steps of a run: 1 extraction,
\* 2 registration, 3 download, 4 write of bcbio_project.yaml, 5 workflow,
\* and 0 for the entries that are part of no such step
StepOf(e) ==
  IF e.op = "call"
    THEN IF e.arg[1] = "tar" THEN 1
         ELSE IF e.arg[1] = "gatk-register" THEN 2
         ELSE IF e.arg[2] = "upgrade" THEN 3
         ELSE 5
  ELSE IF e = Ev("write", << ProjectFile >>) THEN 4
  ELSE 0

HasStep(n) == \E i \in 1..Len(log) : StepOf(log[i]) = n

\* the steps that leave a mark in the log, each at most once and in the
\* order extraction, registration, download, write, workflow; each
\* optional step only under its condition; none of the later four before
\* the workflow is rendered, nothing at all before validation
StepsSoFarInOrder ==
  /\ \A i, j \in 1..Len(log) :
       i < j /\ StepOf(log[i]) > 0 /\ StepOf(log[j]) > 0
         => StepOf(log[i]) < StepOf(log[j])
  /\ HasStep(5) => HasStep(4)
  /\ HasStep(1) => Given(options.data_file)
  /\ HasStep(2) => Given(options.GATK_file)
  /\ HasStep(3) => EmptyWhenChecked
  /\ ~ Rendered => \A i \in 1..Len(log) : StepOf(log[i]) <= 1
  /\ pc = "parse_arguments" => log = << >> /\ ~ Rendered

\* a step of the run keeps the order: validation is not repeated, nothing
\* happens during validation, the log only grows, the workflow is rendered
\* once and after the extraction, and registration, download, write and
\* workflow start from a state where the workflow is rendered
StepKeepsOrder ==
  /\ pc # "parse_arguments" => pc' # "parse_arguments"
  /\ pc = "parse_arguments" => log' = log /\ ~ Rendered'
  /\ Len(log') >= Len(log) /\ SubSeq(log', 1, Len(log)) = log
  /\ Rendered => workflow_to_run' = workflow_to_run
  /\ \A i \in (Len(log) + 1)..Len(log') :
       IF Rendered THEN StepOf(log'[i]) # 1 ELSE StepOf(log'[i]) <= 1

\* C11: the steps of a run happen in the order validation, extraction
\* (only with --data_file), rendering, registration (only with
\* --GATK_file), download (only into an empty data directory), write of
\* bcbio_project.yaml, workflow; each at most once; the workflow is never
\* run before bcbio_project.yaml is written.
C11_StepsInOrder == [] StepsSoFarInOrder /\ [][StepKeepsOrder]_vars

C11_Witness ==
  /\ Rendered
  /\ \A n \in 1..5 : HasStep(n)

\* the run is past the symlinks and the download, neither rejected nor
\* ended by an error
PastReferenceData == pc = "write" \/ HasStep(4)

PastRegistration == Rendered /\ pc # "gatk"

RegisteredAtMostOnce ==
  Cardinality({ i \in 1..Len(log) : StepOf(log[i]) = 2 }) <= 1

\* C13, as claimed: gatk-register is run at most once, and exactly when
\* --GATK_file is given and /tmp/gatk/ is not a directory with entries.
C13_RegistrationIffGiven ==
  /\ RegisteredAtMostOnce
  /\ PastRegistration =>
       (HasStep(2) <=> /\ Given(options.GATK_file)
                       /\ fsBefore["gatk"] # "nonempty")

\* C13, amended: gatk-register is run at most once, and exactly when
\* --GATK_file is given with a value that is not the empty string and
\* /tmp/gatk/ does not exist or is empty; with entries in /tmp/gatk/ it is
\* skipped and the run goes on.
C13_RegistrationIffGivenNotEmpty ==
  /\ RegisteredAtMostOnce
  /\ PastRegistration =>
       /\ HasStep(2) <=> /\ Given(options.GATK_file)
                         /\ Get(options.GATK_file) # ""
                         /\ fsBefore["gatk"] \in { "absent", "empty" }
       /\ fsBefore["gatk"] = "nonempty" => ~ HasStep(2)

C13_Witness ==
  /\ PastRegistration
  /\ HasStep(2)
  /\ fsBefore["gatk"] = "empty"
  /\ options.GATK_file = Some("GenomeAnalysisTK.tar.bz2")

\* the run is past the choice of the template
PastRender == Accepted /\ pc \notin { "datadir", "render" }

\* C14: in an accepted run the template chosen is the germline template
\* exactly when germline-variant-calling is asked for and the cancer
\* template exactly when cancer-variant-calling is; it is one of the two
\* whether or not structural-variant-calling is asked for, never unbound,
\* and the workflow is rendered from it.
C14_TemplateFollowsMode ==
  PastRender =>
    /\ workflow_template \in { "germline", "cancer" }
    /\ workflow_template = "germline" <=> In(Germline, options.workflow)
    /\ workflow_template = "cancer" <=> In(Cancer, options.workflow)
    /\ Rendered
    /\ workflow_to_run[1] =
         (IF In(Germline, options.workflow) THEN GermlineText1
          ELSE CancerText1)

C14_Witness ==
  /\ PastRender
  /\ In(Structural, options.workflow)
  /\ In(Germline, options.workflow)
  /\ workflow_template = "germline"

\* C15: a run in which gatk-register exited with a non-zero status ends
\* with a non-zero exit status.
C15_FailedRegistrationSurfaces ==
  pc = "exited"
    /\ (\E i \in 1..Len(log) : StepOf(log[i]) = 2 /\ log[i].rc # 0)
    => exitCode # 0

====
